---- MODULE Spec2Model ----
(***************************************************************************)
(* The Viture device bridge: the USB native module (VitureModule.kt), its   *)
(* JNI layer (viture_jni.cpp) and the React hook that consumes it           *)
(* (useViture, the NativeEventEmitter variant).                             *)
(*                                                                          *)
(* Threads: "mq" is React Native's native-modules thread, on which every    *)
(* @ReactMethod runs; "main" is the Android main thread, on which the       *)
(* BroadcastReceiver runs.  initializeDevice is modelled statement by       *)
(* statement (one step per native call) because it runs on either thread    *)
(* and the other thread may run between its statements.  The JS thread      *)
(* receives events and promise results in order through jsQueue.            *)
(***************************************************************************)
EXTENDS Integers, Sequences, FiniteSets, TLC

\* ---------------------------------------------------------------- bounds
MaxCalls == 3
MaxEnv == 3
MaxSamples == 2
MaxAttached == 1
MaxResets == 2

\* ------------------------------------------------------ program constants
VITURE_VENDOR_ID == 13770
VITURE_PRODUCT_IDS == {4113, 4114, 4115, 4116, 4117, 4118}
DEVICE_TYPE_GEN1 == 0
DEVICE_TYPE_GEN2 == 1
DEVICE_TYPE_CARINA == 2

Device(v, p) == [vendorId |-> v, productId |-> p]
NoDevice == Device(0, 0)
\* The Luma, product id 0x1014.
Luma == Device(VITURE_VENDOR_ID, 4116)

\* The devices the environment plugs in: a listed Viture product (Luma) and
\* a device with the Viture vendor id whose product id is not listed.
AttachableDevices == {Luma, Device(VITURE_VENDOR_ID, 4128)}

NullHandle == 0
NullRef == 0
ModuleRef == 1

\* Status codes the vendor library may return besides 0.
VendorFailCodes == {-5}

Threads == {"mq", "main"}
\* The two event channels: onVitureIMU and onVitureEvent.
Streams == {"imu", "event"}

\* IMU blocks as the JNI callback builds them: [roll, pitch, yaw, qw, qx, qy, qz]
RawBlocks == {<<10, 20, 30, 1, 0, 0, 0>>, <<40, 50, 60, 0, 1, 0, 0>>}
NullData == [null |-> TRUE]
IMUData(r, p, y, qw, qx, qy, qz) ==
    [roll |-> r, pitch |-> p, yaw |-> y, quaternionW |-> qw,
     quaternionX |-> qx, quaternionY |-> qy, quaternionZ |-> qz]
ZeroOffset == [roll |-> 0, pitch |-> 0, yaw |-> 0]

\* A block that carries roll, pitch and yaw only (1.5, -2.0, 90.0 in tenths).
ShortBlocks == {<<15, -20, 900>>}
\* What the vendor may hand to the pose callback.
VendorBlocks == RawBlocks \cup ShortBlocks
\* The four floats found behind a three-float block when seven are read
\* from its address: whatever the memory holds.
Overread == {<<1, 0, 0, 0>>, <<0, 0, 7, 7>>}
\* The cache fields in the order onImuData writes them.
FieldNames == <<"roll", "pitch", "yaw", "quaternionW", "quaternionX",
                "quaternionY", "quaternionZ">>

VARIABLES
    \* Android USB service
    deviceList,      \* usbManager.deviceList
    permitted,       \* devices for which usbManager.hasPermission is true
    permReqs,        \* permission requests the OS has not answered yet
    mainQ,           \* broadcasts waiting for the receiver on the main thread
    \* VitureModule fields
    connectedDevice, isInitialized, imuEnabled, last,
    \* viture_jni.cpp globals and the vendor session behind g_handle
    g_handle, g_callbackObj, session,
    \* the providers the vendor library has created and not destroyed
    providers,
    \* control state of the two native threads
    pc, loc,
    \* JS side: the bridge queue to JS, the hook's state and its offset ref
    jsQueue, state, orientationOffsetRef,
    \* JS side, wrapper variant: VitureSDKWrapper.isListening and the hook's
    \* initialOrientationRef
    isListening, nativeListeners, initialOrientationRef,
    \* VitureSDKWrapper.imuListeners / eventListeners, and the subscriptions
    \* made and not yet cancelled on each stream (history)
    imuListeners, eventListeners, subscriptions,
    \* the vendor library's callback thread inside imuPoseCallback / onImuData
    vpc, vloc,
    \* history variables
    lastOp, balance, lastDeliveredRaw, rawAtReset, noSampleSinceDetach,
    attempts, creates, resets, nCalls, nEnv, nSamples

osVars == <<deviceList, permitted, permReqs, mainQ>>
modVars == <<connectedDevice, isInitialized, imuEnabled, last>>
jniVars == <<g_handle, g_callbackObj, session, providers>>
regVars == <<imuListeners, eventListeners, subscriptions>>
jsVars == <<state, orientationOffsetRef, isListening, nativeListeners, initialOrientationRef, regVars,
            lastDeliveredRaw, rawAtReset, resets>>
relayVars == <<vpc, vloc>>
vars == <<vpc, vloc, deviceList, permitted, permReqs, mainQ, connectedDevice, isInitialized,
          imuEnabled, last, g_handle, g_callbackObj, session, providers, pc, loc,
          jsQueue,
          state, orientationOffsetRef, isListening, nativeListeners, initialOrientationRef,
          imuListeners, eventListeners, subscriptions,
          lastOp, balance, lastDeliveredRaw,
          rawAtReset, noSampleSinceDetach, attempts, creates, resets, nCalls,
          nEnv, nSamples>>

\* ------------------------------------------------------------- messages
\* What crosses the bridge to the JS thread: an emitted event, an IMU sample,
\* or the settlement of a promise (ok: resolved, ~ok: rejected with `error`).
Msg(kind, type, ok, code, error, value, data) ==
    [kind |-> kind, type |-> type, ok |-> ok, code |-> code, error |-> error,
     value |-> value, data |-> data]
EventMsg(type, deviceType) == Msg("event", type, TRUE, deviceType, "", FALSE, NullData)
ImuMsg(data) == Msg("imu", "onVitureIMU", TRUE, 0, "", FALSE, data)
InitResultMsg(result) ==
    Msg("result", "initialize", result.success, result.code, "", FALSE, NullData)
ResolveMsg(op, value) == Msg("result", op, TRUE, 0, "", value, NullData)
\* The settlement of release(); `data` remembers the hook's 3D flag and
\* offset at the call, for the properties below.
ReleaseMsg(seen) == Msg("result", "release", TRUE, 0, "", TRUE, seen)
RejectMsg(op, error, value) == Msg("result", op, FALSE, 0, error, value, NullData)

Intent(action, device, granted, superseded) ==
    [action |-> action, device |-> device, granted |-> granted,
     superseded |-> superseded]

NoSession == [productId |-> 0, registered |-> FALSE, initialized |-> FALSE,
              started |-> FALSE, imuOpen |-> FALSE]
NoResult == [success |-> FALSE, code |-> 0, deviceType |-> -1]
\* A thread's record of the handler it is running: the device it works on
\* and, for the properties below, what the handler has emitted, whether
\* handleDisconnect ran during it, whether release() came after the
\* permission request it answers, the permission answer, the handle that
\* existed when initialize() was called on a connected module, whether
\* initialize() was called on a module that was neither initialized nor in
\* the middle of an attempt, its result; for setIMUEnabled, its argument.
IdleLoc == [dev |-> NoDevice, emitted |-> <<>>, interrupted |-> FALSE,
            superseded |-> FALSE, granted |-> FALSE, entryHandle |-> NullHandle,
            fromIdle |-> FALSE, result |-> NoResult, enabled |-> FALSE]

\* The vendor thread's record of the pose callback it is running: the block
\* the vendor passed, the float array built from it, how many cache fields
\* onImuData has written; and, for the properties below, whether the global
\* reference the null test saw was deleted since, whether the call used a
\* deleted or null reference, whether an exception left onImuData, and how
\* many samples were stored completely.
IdleRelay == [block |-> <<>>, array |-> <<>>, stored |-> 0, released |-> FALSE,
              invokedReleased |-> FALSE, exception |-> FALSE, completed |-> 0]

\* lastOp: the handler that completed in the step just taken, with the
\* thread-local record it ended with; Step for any other step.
Done(name, info) == [name |-> name, info |-> info]
Step == Done("step", IdleLoc)

\* ----------------------------------------------------------------- Init
InitialState ==
    [isConnected |-> FALSE, isInitializing |-> FALSE, imuEnabled |-> FALSE,
     mode3D |-> FALSE, lastError |-> FALSE, imuData |-> NullData,
     deviceName |-> -1]

InitModule ==
    /\ deviceList = {}
    /\ permitted = {}
    /\ permReqs = <<>>
    /\ mainQ = <<>>
    /\ connectedDevice = NoDevice
    /\ isInitialized = FALSE
    /\ imuEnabled = FALSE
    /\ last = IMUData(0, 0, 0, 1, 0, 0, 0)
    /\ g_handle = NullHandle
    /\ g_callbackObj = NullRef
    /\ session = NoSession
    /\ providers = {}
    /\ pc = [t \in Threads |-> "idle"]
    /\ loc = [t \in Threads |-> IdleLoc]
    /\ jsQueue = <<>>
    /\ state = InitialState
    /\ orientationOffsetRef = ZeroOffset
    /\ isListening = FALSE
    /\ nativeListeners = [stream \in Streams |-> 0]
    /\ initialOrientationRef = NullData
    /\ lastOp = Step
    /\ balance = 0
    /\ lastDeliveredRaw = NullData
    /\ rawAtReset = ZeroOffset
    /\ noSampleSinceDetach = FALSE
    /\ attempts = 0
    /\ creates = 0
    /\ resets = 0
    /\ nCalls = 0
    /\ nEnv = 0
    /\ nSamples = 0
    /\ vpc = "idle"
    /\ vloc = IdleRelay

\* The NativeEventEmitter hook uses no wrapper: its registries stay empty.
Init ==
    /\ InitModule
    /\ imuListeners = <<>>
    /\ eventListeners = <<>>
    /\ subscriptions = [imu |-> <<>>, event |-> <<>>]

\* The wrapper hook is mounted: its effect has subscribed one handler to
\* each stream of the wrapper.
InitW ==
    /\ InitModule
    /\ imuListeners = <<"hook">>
    /\ eventListeners = <<"hook">>
    /\ subscriptions = [imu |-> <<"hook">>, event |-> <<"hook">>]

\* ----------------------------------------------------- Android USB service
\* A device is plugged in; the OS may hold a standing grant for it (the user
\* made the app the default for the device).
Attach(d, granted) ==
    /\ nEnv < MaxEnv
    /\ Cardinality(deviceList) < MaxAttached
    /\ d \notin deviceList
    /\ deviceList' = deviceList \cup {d}
    /\ permitted' = IF granted THEN permitted \cup {d} ELSE permitted
    /\ nEnv' = nEnv + 1
    /\ lastOp' = Step
    /\ UNCHANGED <<permReqs, mainQ, modVars, jniVars, pc, loc, jsQueue,
                   jsVars, balance, noSampleSinceDetach, attempts, creates,
                   nCalls, nSamples, relayVars>>

\* A device is unplugged: it leaves the device list, its permission lapses and
\* ACTION_USB_DEVICE_DETACHED is broadcast.
Detach(d) ==
    /\ nEnv < MaxEnv
    /\ d \in deviceList
    /\ deviceList' = deviceList \ {d}
    /\ permitted' = permitted \ {d}
    /\ mainQ' = Append(mainQ, Intent("detached", d, FALSE, FALSE))
    /\ nEnv' = nEnv + 1
    /\ lastOp' = Step
    /\ UNCHANGED <<permReqs, modVars, jniVars, pc, loc, jsQueue, jsVars, balance,
                   noSampleSinceDetach, attempts, creates, nCalls, nSamples, relayVars>>

\* The user answers the oldest permission prompt: the OS records a grant and
\* broadcasts ACTION_USB_PERMISSION with the answer.
PermissionRespond(granted) ==
    /\ permReqs # <<>>
    /\ LET req == Head(permReqs) IN
       /\ permitted' = IF granted /\ req.device \in deviceList
                       THEN permitted \cup {req.device} ELSE permitted
       /\ mainQ' = Append(mainQ, Intent("perm", req.device, granted, req.superseded))
    /\ permReqs' = Tail(permReqs)
    /\ lastOp' = Step
    /\ UNCHANGED <<deviceList, modVars, jniVars, pc, loc, jsQueue, jsVars, balance,
                   noSampleSinceDetach, attempts, creates, nCalls, nEnv, nSamples, relayVars>>

\* ------------------------------------------------------------ JNI layer
\* xr_device_provider_get_device_type, as VitureNative documents it:
\* GEN1 = One/Pro/Lite, GEN2 = Luma/Luma Pro/Beast.
DeviceTypeOf(productId) ==
    IF productId \in {4113, 4114, 4115} THEN DEVICE_TYPE_GEN1
    ELSE IF productId \in {4116, 4117, 4118} THEN DEVICE_TYPE_GEN2
    ELSE -1

\* VitureNative.getDeviceType
GetDeviceType ==
    IF g_handle = NullHandle THEN -1 ELSE DeviceTypeOf(session.productId)

\* DeleteGlobalRef(g_callbackObj): a pose callback that is past its null test
\* and has not yet made its call holds a reference that no longer exists.
DeleteGlobalRef ==
    IF g_callbackObj # NullRef /\ vpc \in {"attach", "call"}
    THEN [vloc EXCEPT !.released = TRUE]
    ELSE vloc

\* VitureNative.destroy: shuts down and frees the provider, drops the
\* callback's global reference.
NativeDestroy ==
    /\ providers' = providers \ {g_handle}
    /\ g_handle' = NullHandle
    /\ session' = NoSession
    /\ g_callbackObj' = NullRef
    /\ vloc' = DeleteGlobalRef

\* VitureNative.stop: -1 without a handle, else the vendor's status.
NativeStopStatus ==
    IF g_handle = NullHandle THEN {-1} ELSE {0} \cup VendorFailCodes

\* The handle xr_device_provider_create returns for a new provider: one no
\* earlier provider had.
FreshHandle == creates + 1

\* ------------------------------------------------------------ VitureModule
SendEvent(q, msg) == Append(q, msg)

\* findVitureDevice matching on the vendor id alone.
FindVitureDeviceVendorOnly ==
    {d \in deviceList : d.vendorId = VITURE_VENDOR_ID}

\* findVitureDevice: the attached devices that match the allow-list (the
\* code returns the first one in the device map's iteration order).
FindVitureDevice ==
    {d \in deviceList : d.vendorId = VITURE_VENDOR_ID
                        /\ d.productId \in VITURE_PRODUCT_IDS}

\* A connection attempt already under way: an unanswered permission request,
\* an answer not yet received, or the receiver inside initializeDevice.
InFlight ==
    \/ permReqs # <<>>
    \/ \E i \in 1..Len(mainQ) : mainQ[i].action = "perm"
    \/ pc["main"] # "idle"

\* The handle of the session an initialize() call finds established: the
\* module is initialized, holds a handle, and no attempt is under way.
EntryHandle ==
    IF isInitialized /\ ~InFlight THEN g_handle ELSE NullHandle

\* initialize() is called in Idle: the module is not initialized and no
\* attempt is under way.
FromIdle == ~isInitialized /\ ~InFlight

Unsupersede(q) == [i \in 1..Len(q) |-> [q[i] EXCEPT !.superseded = FALSE]]
Supersede(q) == [i \in 1..Len(q) |-> [q[i] EXCEPT !.superseded = TRUE]]

Result(success, code, deviceType) ==
    [success |-> success, code |-> code, deviceType |-> deviceType]

\* initialize(promise): looks for a device and either reports "not found",
\* starts initializeDevice, or asks for USB permission and reports "pending".
ModuleInitialize ==
    /\ IF FindVitureDevice = {}
       THEN /\ jsQueue' = Append(jsQueue, InitResultMsg(Result(FALSE, -1, -1)))
            /\ lastOp' = Done("initializeReturned",
                               [IdleLoc EXCEPT !.result = Result(FALSE, -1, -1)])
            /\ UNCHANGED <<connectedDevice, permReqs, mainQ, pc, loc, attempts>>
       ELSE \E device \in FindVitureDevice :
            /\ connectedDevice' = device
            /\ attempts' = IF InFlight THEN attempts ELSE attempts + 1
            /\ mainQ' = Unsupersede(mainQ)
            /\ IF device \in permitted
               THEN /\ pc' = [pc EXCEPT !["mq"] = "open"]
                    /\ loc' = [loc EXCEPT !["mq"] = [IdleLoc EXCEPT !.dev = device,
                                                                    !.entryHandle = EntryHandle,
                                                                    !.fromIdle = FromIdle],
                                          !["main"].superseded = FALSE]
                    /\ permReqs' = Unsupersede(permReqs)
                    /\ lastOp' = Step
                    /\ UNCHANGED jsQueue
               ELSE \* requestUsbPermission
                    /\ permReqs' = Append(Unsupersede(permReqs),
                                          [device |-> device, superseded |-> FALSE])
                    /\ jsQueue' = Append(jsQueue, InitResultMsg(Result(FALSE, -2, -1)))
                    /\ loc' = [loc EXCEPT !["main"].superseded = FALSE]
                    /\ lastOp' = Done("initializeReturned",
                                       [IdleLoc EXCEPT !.dev = device,
                                                       !.result = Result(FALSE, -2, -1)])
                    /\ UNCHANGED pc
    /\ UNCHANGED <<deviceList, permitted, isInitialized, imuEnabled, last, jniVars>>

\* The hook's initialize(): marks itself initializing and calls the module.
Initialize ==
    /\ pc["mq"] = "idle"
    /\ nCalls < MaxCalls
    /\ nCalls' = nCalls + 1
    /\ state' = [state EXCEPT !.isInitializing = TRUE, !.lastError = FALSE]
    /\ ModuleInitialize
    /\ UNCHANGED <<orientationOffsetRef, isListening, nativeListeners, initialOrientationRef, regVars,
                   lastDeliveredRaw, rawAtReset, resets, balance,
                   noSampleSinceDetach, creates, nEnv, nSamples, relayVars>>

\* initializeDevice returns `result` on thread t: initialize() resolves its
\* promise with it, the permission receiver discards it.
InitReturn(t, result, q, emitted) ==
    /\ pc' = [pc EXCEPT ![t] = "idle"]
    /\ loc' = [loc EXCEPT ![t] = IdleLoc]
    /\ jsQueue' = IF t = "mq" THEN Append(q, InitResultMsg(result)) ELSE q
    /\ lastOp' = Done(IF t = "mq" THEN "initializeReturned" ELSE "permissionHandled",
                       [loc[t] EXCEPT !.result = result,
                                      !.emitted = loc[t].emitted \o emitted])

\* usbManager.openDevice(device): null when the device is gone or access is
\* not granted, and it may fail on a present device.
InitOpen(t) ==
    /\ pc[t] = "open"
    /\ \E opened \in (IF loc[t].dev \in deviceList /\ loc[t].dev \in permitted
                      THEN {TRUE, FALSE} ELSE {FALSE}) :
         IF opened
         THEN /\ pc' = [pc EXCEPT ![t] = "create"]
              /\ lastOp' = Step
              /\ UNCHANGED <<loc, jsQueue>>
         ELSE InitReturn(t, Result(FALSE, -3, -1), jsQueue, <<>>)
    /\ UNCHANGED <<osVars, modVars, jniVars, jsVars, balance, noSampleSinceDetach,
                   attempts, creates, nCalls, nEnv, nSamples, relayVars>>

\* VitureNative.create(productId, fd), first half: tests g_handle and
\* destroys an existing provider.  The function holds no lock, so the other
\* thread may run between this test and the assignment that follows.
NativeCreateDestroyExisting ==
    /\ providers' = providers \ {g_handle}
    /\ g_handle' = NullHandle
    /\ session' = NoSession
    /\ UNCHANGED g_callbackObj

InitCreate(t) ==
    /\ pc[t] = "create"
    /\ NativeCreateDestroyExisting
    /\ pc' = [pc EXCEPT ![t] = "provider"]
    /\ lastOp' = Step
    /\ UNCHANGED <<osVars, modVars, loc, jsQueue, jsVars, balance,
                   noSampleSinceDetach, attempts, creates, nCalls, nEnv, nSamples, relayVars>>

\* VitureNative.create, second half: xr_device_provider_create and the
\* assignment to g_handle; false when the vendor returns no handle.
NativeCreate(t, created) ==
    /\ g_handle' = IF created THEN FreshHandle ELSE NullHandle
    /\ providers' = IF created THEN providers \cup {FreshHandle} ELSE providers
    /\ session' = IF created
                  THEN [NoSession EXCEPT !.productId = loc[t].dev.productId]
                  ELSE NoSession
    /\ UNCHANGED g_callbackObj

InitCreateProvider(t) ==
    /\ pc[t] = "provider"
    /\ creates' = creates + 1
    /\ \E created \in BOOLEAN :
         /\ NativeCreate(t, created)
         /\ IF created
            THEN /\ pc' = [pc EXCEPT ![t] = "setCallback"]
                 /\ lastOp' = Step
                 /\ UNCHANGED <<loc, jsQueue>>
            ELSE InitReturn(t, Result(FALSE, -4, -1), jsQueue, <<>>)
    /\ UNCHANGED <<osVars, modVars, jsVars, balance, noSampleSinceDetach, attempts,
                   nCalls, nEnv, nSamples, relayVars>>

\* VitureNative.setCallback(this): replaces the global reference and, when a
\* provider exists, registers the IMU and state callbacks with it.
InitSetCallback(t) ==
    /\ pc[t] = "setCallback"
    /\ vloc' = DeleteGlobalRef
    /\ g_callbackObj' = ModuleRef
    /\ session' = IF g_handle # NullHandle
                  THEN [session EXCEPT !.registered = TRUE] ELSE session
    /\ pc' = [pc EXCEPT ![t] = "nativeInit"]
    /\ lastOp' = Step
    /\ UNCHANGED <<osVars, modVars, g_handle, providers, loc, jsQueue, jsVars, balance,
                   noSampleSinceDetach, attempts, creates, nCalls, nEnv, nSamples, vpc>>

\* VitureNative.initialize(cacheDir): -1 without a handle, else the vendor's
\* status; a nonzero status is returned as the failure code.
InitNativeInitialize(t) ==
    /\ pc[t] = "nativeInit"
    /\ \E status \in (IF g_handle = NullHandle THEN {-1} ELSE {0} \cup VendorFailCodes) :
         IF status = 0
         THEN /\ session' = [session EXCEPT !.initialized = TRUE]
              /\ pc' = [pc EXCEPT ![t] = "start"]
              /\ lastOp' = Step
              /\ UNCHANGED <<loc, jsQueue>>
         ELSE /\ InitReturn(t, Result(FALSE, status, -1), jsQueue, <<>>)
              /\ UNCHANGED session
    /\ UNCHANGED <<osVars, modVars, g_handle, g_callbackObj, providers, jsVars, balance,
                   noSampleSinceDetach, attempts, creates, nCalls, nEnv, nSamples, relayVars>>

\* initializeDevice going on whatever VitureNative.start() returns.
InitStartIgnoringStatus(t) ==
    /\ pc[t] = "start"
    /\ \E status \in (IF g_handle = NullHandle THEN {-1} ELSE {0} \cup VendorFailCodes) :
         /\ session' = IF status = 0 THEN [session EXCEPT !.started = TRUE] ELSE session
         /\ pc' = [pc EXCEPT ![t] = "finish"]
         /\ lastOp' = Step
         /\ UNCHANGED <<loc, jsQueue>>
    /\ UNCHANGED <<osVars, modVars, g_handle, g_callbackObj, providers, jsVars, balance,
                   noSampleSinceDetach, attempts, creates, nCalls, nEnv, nSamples, relayVars>>

\* VitureNative.start()
InitStart(t) ==
    /\ pc[t] = "start"
    /\ \E status \in (IF g_handle = NullHandle THEN {-1} ELSE {0} \cup VendorFailCodes) :
         IF status = 0
         THEN /\ session' = [session EXCEPT !.started = TRUE]
              /\ pc' = [pc EXCEPT ![t] = "finish"]
              /\ lastOp' = Step
              /\ UNCHANGED <<loc, jsQueue>>
         ELSE /\ InitReturn(t, Result(FALSE, status, -1), jsQueue, <<>>)
              /\ UNCHANGED session
    /\ UNCHANGED <<osVars, modVars, g_handle, g_callbackObj, providers, jsVars, balance,
                   noSampleSinceDetach, attempts, creates, nCalls, nEnv, nSamples, relayVars>>

\* The tail of initializeDevice: isInitialized = true, the "connected" event
\* and the success result.
InitFinish(t) ==
    /\ pc[t] = "finish"
    /\ isInitialized' = TRUE
    /\ balance' = balance + 1
    /\ InitReturn(t, Result(TRUE, 0, GetDeviceType),
                  SendEvent(jsQueue, EventMsg("connected", GetDeviceType)),
                  <<"connected">>)
    /\ UNCHANGED <<osVars, connectedDevice, imuEnabled, last, jniVars, jsVars,
                   noSampleSinceDetach, attempts, creates, nCalls, nEnv, nSamples, relayVars>>

\* usbReceiver.onReceive, ACTION_USB_PERMISSION: a grant runs
\* initializeDevice on the main thread and drops its result; a denial emits
\* permission_denied.
ReceivePermission ==
    /\ pc["main"] = "idle"
    /\ mainQ # <<>>
    /\ Head(mainQ).action = "perm"
    /\ mainQ' = Tail(mainQ)
    /\ LET intent == Head(mainQ)
           l == [IdleLoc EXCEPT !.dev = intent.device, !.granted = intent.granted,
                                !.superseded = intent.superseded]
       IN IF intent.granted
          THEN /\ pc' = [pc EXCEPT !["main"] = "open"]
               /\ loc' = [loc EXCEPT !["main"] = l]
               /\ lastOp' = Step
               /\ UNCHANGED jsQueue
          ELSE /\ jsQueue' = SendEvent(jsQueue, EventMsg("permission_denied", -1))
               /\ lastOp' = Done("permissionHandled",
                                  [l EXCEPT !.emitted = <<"permission_denied">>])
               /\ UNCHANGED <<pc, loc>>
    /\ UNCHANGED <<deviceList, permitted, permReqs, modVars, jniVars, jsVars, balance,
                   noSampleSinceDetach, attempts, creates, nCalls, nEnv, nSamples, relayVars>>

\* handleDisconnect
HandleDisconnect ==
    /\ isInitialized' = FALSE
    /\ imuEnabled' = FALSE
    /\ NativeDestroy
    /\ connectedDevice' = NoDevice
    /\ jsQueue' = SendEvent(jsQueue, EventMsg("disconnected", -1))
    /\ balance' = balance - 1
    /\ noSampleSinceDetach' = (isInitialized /\ imuEnabled)
    /\ loc' = [loc EXCEPT !["mq"].interrupted = (pc["mq"] # "idle")]
    /\ lastOp' = Done("handleDisconnect", IdleLoc)
    /\ UNCHANGED last

\* usbReceiver.onReceive, ACTION_USB_DEVICE_DETACHED: a detached device with
\* the Viture vendor id triggers handleDisconnect.
ReceiveDetached ==
    /\ pc["main"] = "idle"
    /\ mainQ # <<>>
    /\ Head(mainQ).action = "detached"
    /\ mainQ' = Tail(mainQ)
    /\ IF Head(mainQ).device.vendorId = VITURE_VENDOR_ID
       THEN HandleDisconnect
       ELSE /\ lastOp' = Step
            /\ UNCHANGED <<modVars, jniVars, jsQueue, balance, noSampleSinceDetach, loc,
                           vloc>>
    /\ UNCHANGED <<deviceList, permitted, permReqs, pc, jsVars, attempts, creates,
                   nCalls, nEnv, nSamples, vpc>>

\* What release() finds in the hook: the 3D flag and the offset.
HookSeen == [mode3D |-> state.mode3D, offset |-> orientationOffsetRef]

\* release(promise): stop, destroy, clear the flags, resolve true.  The
\* status stop() returned is dropped by the code; lastOp keeps it.
ModuleRelease(seen) ==
    /\ \E stopStatus \in NativeStopStatus :
         /\ NativeDestroy
         /\ lastOp' = Done("release",
                            [IdleLoc EXCEPT !.result = Result(stopStatus = 0, stopStatus, -1)])
    /\ isInitialized' = FALSE
    /\ imuEnabled' = FALSE
    /\ connectedDevice' = NoDevice
    /\ jsQueue' = Append(jsQueue, ReleaseMsg(seen))
    /\ permReqs' = Supersede(permReqs)
    /\ mainQ' = Supersede(mainQ)
    /\ UNCHANGED <<deviceList, permitted, last, pc, loc>>

\* The hook's release(): calls the module; its continuation is ReleaseSettled.
Release ==
    /\ pc["mq"] = "idle"
    /\ nCalls < MaxCalls
    /\ nCalls' = nCalls + 1
    /\ ModuleRelease(HookSeen)
    /\ UNCHANGED <<jsVars, balance, noSampleSinceDetach, attempts, creates, nEnv,
                   nSamples, vpc>>

\* VitureNative.openImu / closeImu: -1 without a handle, else the vendor's
\* status.
NativeImuStatus ==
    IF g_handle = NullHandle THEN {-1} ELSE {0} \cup VendorFailCodes

\* lastOp after a setIMUEnabled call that reached the native layer: its
\* argument and the status openImu / closeImu returned.
ImuOp(enabled, status) ==
    Done("setIMUEnabled", [IdleLoc EXCEPT !.result = Result(status = 0, status, -1),
                                          !.enabled = enabled])

\* setIMUEnabled storing its argument in the flag whatever the status.
SetIMUEnabledAnyStatus(enabled) ==
    /\ IF ~isInitialized
       THEN /\ jsQueue' = Append(jsQueue, RejectMsg("setIMUEnabled", "NOT_INITIALIZED", enabled))
            /\ lastOp' = Step
            /\ UNCHANGED <<imuEnabled, session>>
       ELSE \E result \in NativeImuStatus :
            /\ imuEnabled' = enabled
            /\ lastOp' = ImuOp(enabled, result)
            /\ IF result = 0
               THEN /\ session' = [session EXCEPT !.imuOpen = enabled]
                    /\ jsQueue' = Append(jsQueue, ResolveMsg("setIMUEnabled", enabled))
               ELSE /\ jsQueue' = Append(jsQueue, RejectMsg("setIMUEnabled", "IMU_ERROR", enabled))
                    /\ UNCHANGED session
    /\ UNCHANGED <<connectedDevice, isInitialized, last, g_handle, g_callbackObj, providers>>

\* setIMUEnabled clearing the flag without calling closeImu.
SetIMUEnabledNoClose(enabled) ==
    /\ IF ~isInitialized
       THEN /\ jsQueue' = Append(jsQueue, RejectMsg("setIMUEnabled", "NOT_INITIALIZED", enabled))
            /\ lastOp' = Step
            /\ UNCHANGED <<imuEnabled, session>>
       ELSE IF ~enabled
       THEN /\ imuEnabled' = FALSE
            /\ jsQueue' = Append(jsQueue, ResolveMsg("setIMUEnabled", enabled))
            /\ lastOp' = ImuOp(enabled, 0)
            /\ UNCHANGED session
       ELSE \E result \in NativeImuStatus :
            IF result = 0
            THEN /\ session' = [session EXCEPT !.imuOpen = enabled]
                 /\ imuEnabled' = enabled
                 /\ jsQueue' = Append(jsQueue, ResolveMsg("setIMUEnabled", enabled))
                 /\ lastOp' = ImuOp(enabled, result)
            ELSE /\ jsQueue' = Append(jsQueue, RejectMsg("setIMUEnabled", "IMU_ERROR", enabled))
                 /\ lastOp' = ImuOp(enabled, result)
                 /\ UNCHANGED <<imuEnabled, session>>
    /\ UNCHANGED <<connectedDevice, isInitialized, last, g_handle, g_callbackObj, providers>>

\* setIMUEnabled without its isInitialized test.
SetIMUEnabledUnguarded(enabled) ==
    /\ \E result \in NativeImuStatus :
            IF result = 0
            THEN /\ session' = [session EXCEPT !.imuOpen = enabled]
                 /\ imuEnabled' = enabled
                 /\ jsQueue' = Append(jsQueue, ResolveMsg("setIMUEnabled", enabled))
                 /\ lastOp' = ImuOp(enabled, result)
            ELSE /\ jsQueue' = Append(jsQueue, RejectMsg("setIMUEnabled", "IMU_ERROR", enabled))
                 /\ lastOp' = ImuOp(enabled, result)
                 /\ UNCHANGED <<imuEnabled, session>>
    /\ UNCHANGED <<connectedDevice, isInitialized, last, g_handle, g_callbackObj, providers>>

\* setIMUEnabled(enabled, promise)
SetIMUEnabled(enabled) ==
    /\ IF ~isInitialized
       THEN /\ jsQueue' = Append(jsQueue, RejectMsg("setIMUEnabled", "NOT_INITIALIZED", enabled))
            /\ lastOp' = Step
            /\ UNCHANGED <<imuEnabled, session>>
       ELSE \E result \in NativeImuStatus :
            IF result = 0
            THEN /\ session' = [session EXCEPT !.imuOpen = enabled]
                 /\ imuEnabled' = enabled
                 /\ jsQueue' = Append(jsQueue, ResolveMsg("setIMUEnabled", enabled))
                 /\ lastOp' = ImuOp(enabled, result)
            ELSE /\ jsQueue' = Append(jsQueue, RejectMsg("setIMUEnabled", "IMU_ERROR", enabled))
                 /\ lastOp' = ImuOp(enabled, result)
                 /\ UNCHANGED <<imuEnabled, session>>
    /\ UNCHANGED <<connectedDevice, isInitialized, last, g_handle, g_callbackObj, providers>>

\* The hook's toggleIMU: does nothing unless the hook believes it is
\* connected, else asks the module for the opposite of the hook's IMU flag.
ToggleIMU ==
    /\ pc["mq"] = "idle"
    /\ nCalls < MaxCalls
    /\ state.isConnected
    /\ nCalls' = nCalls + 1
    /\ SetIMUEnabled(~state.imuEnabled)
    /\ UNCHANGED <<osVars, pc, loc, jsVars, balance, noSampleSinceDetach, attempts,
                   creates, nEnv, nSamples, relayVars>>

\* getLastIMUData(promise): resolves with the cached fields.
GetLastIMUData ==
    IMUData(last.roll, last.pitch, last.yaw, last.quaternionW,
            last.quaternionX, last.quaternionY, last.quaternionZ)

\* onImuData(data, timestamp): caches a block of at least 7 floats and emits
\* it as onVitureIMU.
OnImuData(data) ==
    IF Len(data) >= 7
    THEN /\ last' = IMUData(data[1], data[2], data[3], data[4], data[5], data[6], data[7])
         /\ jsQueue' = SendEvent(jsQueue, ImuMsg(IMUData(data[1], data[2], data[3],
                                                        data[4], data[5], data[6], data[7])))
    ELSE UNCHANGED <<last, jsQueue>>

\* imuPoseCallback on the vendor's thread: the vendor calls it while the
\* provider is started with its IMU open; it forwards the block to the
\* callback object when there is one.
ImuPoseCallback(data) ==
    /\ nSamples < MaxSamples
    /\ g_handle # NullHandle
    /\ session.registered /\ session.started /\ session.imuOpen
    /\ nSamples' = nSamples + 1
    /\ IF g_callbackObj = NullRef
       THEN UNCHANGED <<last, jsQueue, noSampleSinceDetach>>
       ELSE /\ OnImuData(data)
            /\ noSampleSinceDetach' = FALSE
    /\ lastOp' = Step
    /\ UNCHANGED <<osVars, connectedDevice, isInitialized, imuEnabled, jniVars, pc,
                   loc, jsVars, balance, attempts, creates, nCalls, nEnv, relayVars>>

\* ------------------------------------------- the pose callback, step by step
\* The same callback with the vendor thread's steps apart, so that the
\* other threads can run between them.

\* NewFloatArray(7) and SetFloatArrayRegion(imuArray, 0, 7, data): seven
\* floats are read from the block's address whatever the block holds.
FloatArrays(block) ==
    IF Len(block) >= 7
    THEN {SubSeq(block, 1, 7)}
    ELSE {block \o SubSeq(rest, 1, 7 - Len(block)) : rest \in Overread}

\* imuPoseCallback, entry: returns at once when there is no callback object.
RelayEnter(block) ==
    /\ vpc = "idle"
    /\ nSamples < MaxSamples
    /\ g_handle # NullHandle
    /\ session.registered /\ session.started /\ session.imuOpen
    /\ nSamples' = nSamples + 1
    /\ vloc' = [vloc EXCEPT !.block = block, !.array = <<>>, !.stored = 0,
                            !.released = FALSE]
    /\ IF g_callbackObj = NullRef
       THEN /\ vpc' = "idle"
            /\ lastOp' = Done("sampleDropped", IdleLoc)
       ELSE /\ vpc' = "attach"
            /\ lastOp' = Step
    /\ UNCHANGED <<osVars, modVars, jniVars, pc, loc, jsQueue, jsVars, balance,
                   noSampleSinceDetach, attempts, creates, nCalls, nEnv>>

\* GetEnv / AttachCurrentThread, then the float array: a thread that cannot
\* be attached returns without relaying.
RelayAttach ==
    /\ vpc = "attach"
    /\ \E attached \in BOOLEAN :
         IF attached
         THEN /\ \E array \in FloatArrays(vloc.block) :
                   vloc' = [vloc EXCEPT !.array = array]
              /\ vpc' = "call"
              /\ lastOp' = Step
         ELSE /\ vpc' = "idle"
              /\ lastOp' = Done("sampleDropped", IdleLoc)
              /\ UNCHANGED vloc
    /\ UNCHANGED <<osVars, modVars, jniVars, pc, loc, jsQueue, jsVars, balance,
                   noSampleSinceDetach, attempts, creates, nCalls, nEnv, nSamples>>

\* CallVoidMethod(g_callbackObj, g_onImuDataMethod, ...).  g_callbackObj is
\* read a second time, with no lock against destroy() and setCallback() on
\* the other threads: the call gets either the value the null test saw or
\* the value the global holds now.  With a deleted or null reference the
\* call is undefined: the process aborts or the call still reaches the
\* module.  onImuData then tests the array's size.
RelayCall ==
    /\ vpc = "call"
    /\ \E reread \in BOOLEAN :
         LET gone == IF reread THEN g_callbackObj = NullRef ELSE vloc.released IN
         /\ vloc' = [vloc EXCEPT !.invokedReleased = vloc.invokedReleased \/ gone]
         /\ \E reached \in (IF gone THEN BOOLEAN ELSE {TRUE}) :
              vpc' = IF ~reached THEN "aborted"
                     ELSE IF Len(vloc.array) >= 7 THEN "store" ELSE "idle"
    /\ lastOp' = Step
    /\ UNCHANGED <<osVars, modVars, jniVars, pc, loc, jsQueue, jsVars, balance,
                   noSampleSinceDetach, attempts, creates, nCalls, nEnv, nSamples>>

\* onImuData: lastRoll = data[0] ... lastQz = data[6], one field at a time;
\* the fields are plain vars read by getLastIMUData on another thread.
RelayStore ==
    /\ vpc = "store"
    /\ LET i == vloc.stored + 1 IN
       /\ last' = [last EXCEPT ![FieldNames[i]] = vloc.array[i]]
       /\ vloc' = [vloc EXCEPT !.stored = i,
                               !.completed = IF i = 7 THEN @ + 1 ELSE @]
       /\ vpc' = IF i = 7 THEN "emit" ELSE "store"
    /\ lastOp' = Step
    /\ UNCHANGED <<osVars, connectedDevice, isInitialized, imuEnabled, jniVars, pc,
                   loc, jsQueue, jsVars, balance, noSampleSinceDetach, attempts,
                   creates, nCalls, nEnv, nSamples>>

\* onImuData: sendEvent("onVitureIMU", ...) built from the cache fields.
\* getJSModule(...).emit throws when the React instance is not available;
\* neither onImuData nor sendEvent catches, and imuPoseCallback does not
\* test for a pending exception, so the exception is left pending on the
\* vendor's thread, which returns to the vendor or aborts.
RelayEmit ==
    /\ vpc = "emit"
    /\ \E thrown \in BOOLEAN :
         IF thrown
         THEN /\ vloc' = [vloc EXCEPT !.exception = TRUE]
              /\ \E returns \in BOOLEAN : vpc' = IF returns THEN "idle" ELSE "aborted"
              /\ lastOp' = Done("sampleFailed", IdleLoc)
              /\ UNCHANGED <<jsQueue, noSampleSinceDetach>>
         ELSE /\ jsQueue' = SendEvent(jsQueue, ImuMsg(GetLastIMUData))
              /\ noSampleSinceDetach' = FALSE
              /\ vpc' = "idle"
              /\ lastOp' = Done("sampleRelayed", IdleLoc)
              /\ UNCHANGED vloc
    /\ UNCHANGED <<osVars, modVars, jniVars, pc, loc, jsVars, balance, attempts,
                   creates, nCalls, nEnv, nSamples>>

\* setIMUEnabled(enabled, promise) called from JS, as far as the return of
\* openImu / closeImu: the native stream has changed, the flag is not yet
\* written.
SetIMUEnabledCall(enabled) ==
    /\ pc["mq"] = "idle"
    /\ nCalls < MaxCalls
    /\ nCalls' = nCalls + 1
    /\ IF ~isInitialized
       THEN /\ jsQueue' = Append(jsQueue, RejectMsg("setIMUEnabled", "NOT_INITIALIZED", enabled))
            /\ UNCHANGED <<session, pc, loc>>
       ELSE /\ \E result \in NativeImuStatus :
                 /\ session' = IF result = 0
                               THEN [session EXCEPT !.imuOpen = enabled] ELSE session
                 /\ loc' = [loc EXCEPT !["mq"] =
                              [IdleLoc EXCEPT !.result = Result(result = 0, result, -1),
                                              !.enabled = enabled]]
            /\ pc' = [pc EXCEPT !["mq"] = "imuResult"]
            /\ UNCHANGED jsQueue
    /\ lastOp' = Step
    /\ UNCHANGED <<osVars, modVars, g_handle, g_callbackObj, providers, jsVars, balance,
                   noSampleSinceDetach, attempts, creates, nEnv, nSamples, relayVars>>

\* setIMUEnabled after the native call: writes the flag and resolves on
\* status 0, rejects otherwise.
SetIMUEnabledResult ==
    /\ pc["mq"] = "imuResult"
    /\ LET result == loc["mq"].result.code
           enabled == loc["mq"].enabled IN
       /\ IF result = 0
          THEN /\ imuEnabled' = enabled
               /\ jsQueue' = Append(jsQueue, ResolveMsg("setIMUEnabled", enabled))
          ELSE /\ jsQueue' = Append(jsQueue, RejectMsg("setIMUEnabled", "IMU_ERROR", enabled))
               /\ UNCHANGED imuEnabled
       /\ lastOp' = ImuOp(enabled, result)
    /\ pc' = [pc EXCEPT !["mq"] = "idle"]
    /\ loc' = [loc EXCEPT !["mq"] = IdleLoc]
    /\ UNCHANGED <<osVars, connectedDevice, isInitialized, last, jniVars, jsVars,
                   balance, noSampleSinceDetach, attempts, creates, nCalls, nEnv,
                   nSamples, relayVars>>

\* ------------------------------------------------------------- the hook
\* The onVitureIMU listener: subtracts the orientation offset.
AdjustedData(data) ==
    [data EXCEPT !.roll = data.roll - orientationOffsetRef.roll,
                 !.pitch = data.pitch - orientationOffsetRef.pitch,
                 !.yaw = data.yaw - orientationOffsetRef.yaw]

OnVitureIMU ==
    /\ jsQueue # <<>>
    /\ Head(jsQueue).kind = "imu"
    /\ jsQueue' = Tail(jsQueue)
    /\ state' = [state EXCEPT !.imuData = AdjustedData(Head(jsQueue).data)]
    /\ lastDeliveredRaw' = Head(jsQueue).data
    /\ lastOp' = Done("sampleDelivered", IdleLoc)
    /\ UNCHANGED <<osVars, modVars, jniVars, pc, loc, orientationOffsetRef,
                   isListening, nativeListeners, initialOrientationRef, regVars, rawAtReset, resets, balance,
                   noSampleSinceDetach, attempts, creates, nCalls, nEnv, nSamples, relayVars>>

\* The onVitureEvent listener.
EventState(event) ==
    IF event.type = "connected"
    THEN [state EXCEPT !.isConnected = TRUE, !.isInitializing = FALSE,
                       !.deviceName = event.code, !.lastError = FALSE]
    ELSE IF event.type = "disconnected"
    THEN [state EXCEPT !.isConnected = FALSE, !.imuEnabled = FALSE,
                       !.imuData = NullData, !.deviceName = -1]
    ELSE IF event.type = "permission_denied"
    THEN [state EXCEPT !.isInitializing = FALSE, !.lastError = TRUE]
    ELSE state

OnVitureEvent ==
    /\ jsQueue # <<>>
    /\ Head(jsQueue).kind = "event"
    /\ jsQueue' = Tail(jsQueue)
    /\ state' = EventState(Head(jsQueue))
    /\ lastOp' = Step
    /\ UNCHANGED <<osVars, modVars, jniVars, pc, loc, orientationOffsetRef,
                   isListening, nativeListeners, initialOrientationRef, regVars, lastDeliveredRaw, rawAtReset,
                   resets, balance, noSampleSinceDetach, attempts, creates, nCalls,
                   nEnv, nSamples, relayVars>>

\* The continuation of the hook's initialize() after the promise settles.
InitializeSettled(result) ==
    IF result.ok
    THEN [state EXCEPT !.isConnected = TRUE, !.isInitializing = FALSE,
                       !.deviceName = result.code, !.lastError = FALSE]
    ELSE [state EXCEPT !.isInitializing = FALSE, !.lastError = TRUE]

\* The continuation of the hook's release().
ReleaseSettled ==
    [state EXCEPT !.isConnected = FALSE, !.imuEnabled = FALSE,
                  !.imuData = NullData, !.deviceName = -1]

\* The continuation of the hook's toggleIMU().
ToggleIMUSettled(result) ==
    IF result.ok
    THEN [state EXCEPT !.imuEnabled = result.value]
    ELSE [state EXCEPT !.lastError = TRUE]

PromiseSettled ==
    /\ jsQueue # <<>>
    /\ Head(jsQueue).kind = "result"
    /\ jsQueue' = Tail(jsQueue)
    /\ LET result == Head(jsQueue) IN
       /\ state' = IF result.type = "initialize" THEN InitializeSettled(result)
                   ELSE IF result.type = "release" THEN ReleaseSettled
                   ELSE ToggleIMUSettled(result)
       /\ lastOp' = IF result.type = "release"
                    THEN Done("releaseSettled",
                              [IdleLoc EXCEPT !.interrupted = (result.data # HookSeen)])
                    ELSE Step
    /\ UNCHANGED <<osVars, modVars, jniVars, pc, loc, orientationOffsetRef,
                   isListening, nativeListeners, initialOrientationRef, regVars, lastDeliveredRaw, rawAtReset,
                   resets, balance, noSampleSinceDetach, attempts, creates, nCalls,
                   nEnv, nSamples, relayVars>>

\* The hook's toggle3D: flips the local flag.
Toggle3D ==
    /\ nCalls < MaxCalls
    /\ nCalls' = nCalls + 1
    /\ state' = [state EXCEPT !.mode3D = ~state.mode3D]
    /\ lastOp' = Step
    /\ UNCHANGED <<osVars, modVars, jniVars, pc, loc, jsQueue, orientationOffsetRef,
                   isListening, nativeListeners, initialOrientationRef, regVars, lastDeliveredRaw, rawAtReset,
                   resets, balance, noSampleSinceDetach, attempts, creates, nEnv,
                   nSamples, relayVars>>

\* The offset resetOrientation stores: the displayed angles added to the
\* offset in force.
NewOffset ==
    [roll |-> state.imuData.roll + orientationOffsetRef.roll,
     pitch |-> state.imuData.pitch + orientationOffsetRef.pitch,
     yaw |-> state.imuData.yaw + orientationOffsetRef.yaw]

\* The hook's resetOrientation: with a sample on display, moves the offset
\* and zeroes the displayed angles.
ResetOrientation ==
    /\ resets < MaxResets
    /\ state.imuData # NullData
    /\ orientationOffsetRef' = NewOffset
    /\ state' = [state EXCEPT !.imuData = [state.imuData EXCEPT !.roll = 0,
                                                                !.pitch = 0, !.yaw = 0]]
    /\ rawAtReset' = [roll |-> lastDeliveredRaw.roll, pitch |-> lastDeliveredRaw.pitch,
                      yaw |-> lastDeliveredRaw.yaw]
    /\ resets' = resets + 1
    /\ lastOp' = Step
    /\ UNCHANGED <<osVars, modVars, jniVars, pc, loc, jsQueue, isListening, nativeListeners,
                   initialOrientationRef, regVars, lastDeliveredRaw, balance,
                   noSampleSinceDetach, attempts, creates, nCalls, nEnv, nSamples, relayVars>>

\* --------------------------------------------- the wrapper and its hook
\* The second JS stack over the same native module: VitureSDKWrapper (the
\* exported singleton Viture) and the useViture hook built on it.  That
\* hook's toggleIMU and toggle3D return at once unless the hook's
\* isConnected is true, which its initialize() never sets over this native
\* module (see WInitializeSettled), so IMU streaming is switched on through
\* the wrapper's own setIMUEnabled.

\* listeners.forEach((cb) => cb(data)): how many times handler h is called
\* for one event.
Calls(listeners, h) ==
    Cardinality({k \in 1..Len(listeners) : listeners[k] = h})

\* startListening adding its listeners without testing isListening.
StartListeningUnguarded ==
    /\ nativeListeners' = [stream \in Streams |-> nativeListeners[stream] + 1]
    /\ isListening' = TRUE

\* VitureSDKWrapper.startListening: returns when already listening, else
\* adds one listener to each channel of the emitter.
StartListening ==
    IF isListening
    THEN UNCHANGED <<isListening, nativeListeners>>
    ELSE /\ nativeListeners' = [stream \in Streams |-> nativeListeners[stream] + 1]
         /\ isListening' = TRUE

\* VitureSDKWrapper.stopListening: returns when not listening, else removes
\* all listeners of both channels.
StopListening ==
    IF ~isListening
    THEN UNCHANGED <<isListening, nativeListeners>>
    ELSE /\ nativeListeners' = [stream \in Streams |-> 0]
         /\ isListening' = FALSE

\* The hook's initialize(): marks itself initializing, then
\* VitureSDKWrapper.initialize calls the module.
WInitialize ==
    /\ pc["mq"] = "idle"
    /\ nCalls < MaxCalls
    /\ nCalls' = nCalls + 1
    /\ state' = [state EXCEPT !.isInitializing = TRUE, !.lastError = FALSE]
    /\ ModuleInitialize
    /\ UNCHANGED <<orientationOffsetRef, isListening, nativeListeners, initialOrientationRef, regVars,
                   lastDeliveredRaw, rawAtReset, resets, balance,
                   noSampleSinceDetach, creates, nEnv, nSamples, relayVars>>

\* The hook's continuation of initialize().  On success it awaits
\* Viture.getIMUState() and Viture.get3DState(); the native module exports no
\* get3DState, so that call throws and the catch block records the error
\* without setting isConnected.  On failure it clears isConnected.
WInitializeSettled(result) ==
    IF result.ok
    THEN [state EXCEPT !.isInitializing = FALSE, !.lastError = TRUE]
    ELSE [state EXCEPT !.isConnected = FALSE, !.isInitializing = FALSE,
                       !.lastError = TRUE]

\* The hook's continuation of release().
WReleaseSettled ==
    [state EXCEPT !.isConnected = FALSE, !.imuEnabled = FALSE, !.mode3D = FALSE,
                  !.imuData = NullData]

\* A promise of the wrapper settles: VitureSDKWrapper.initialize starts
\* listening on success before the hook's continuation runs.
WPromiseSettled ==
    /\ jsQueue # <<>>
    /\ Head(jsQueue).kind = "result"
    /\ jsQueue' = Tail(jsQueue)
    /\ LET result == Head(jsQueue) IN
       /\ IF result.type = "initialize" /\ result.ok
          THEN /\ StartListening
               /\ lastOp' = Done(IF isListening THEN "alreadyListening"
                                  ELSE "startedListening", IdleLoc)
          ELSE /\ lastOp' = Step
               /\ UNCHANGED <<isListening, nativeListeners>>
       /\ state' = IF result.type = "initialize" THEN WInitializeSettled(result)
                   ELSE IF result.type = "release" THEN WReleaseSettled
                   ELSE state
    /\ UNCHANGED <<osVars, modVars, jniVars, pc, loc, orientationOffsetRef,
                   initialOrientationRef, regVars, lastDeliveredRaw, rawAtReset, resets,
                   balance, noSampleSinceDetach, attempts, creates, nCalls, nEnv,
                   nSamples, relayVars>>

\* The hook's release(): VitureSDKWrapper.release stops listening, then
\* calls the module.
WRelease ==
    /\ pc["mq"] = "idle"
    /\ nCalls < MaxCalls
    /\ nCalls' = nCalls + 1
    /\ StopListening
    /\ ModuleRelease(HookSeen)
    /\ UNCHANGED <<state, orientationOffsetRef, initialOrientationRef, regVars,
                   lastDeliveredRaw, rawAtReset, resets, balance,
                   noSampleSinceDetach, attempts, creates, nEnv, nSamples, vpc>>

\* VitureSDKWrapper.setIMUEnabled(enabled)
WSetIMUEnabled(enabled) ==
    /\ pc["mq"] = "idle"
    /\ nCalls < MaxCalls
    /\ nCalls' = nCalls + 1
    /\ SetIMUEnabled(enabled)
    /\ UNCHANGED <<osVars, pc, loc, jsVars, balance, noSampleSinceDetach, attempts,
                   creates, nEnv, nSamples, relayVars>>

\* An onVitureIMU event reaches JS: the wrapper's native listener, attached
\* while listening, hands it to the hook's onIMUData subscriber, which
\* stores the sample as received.
WOnVitureIMU ==
    /\ jsQueue # <<>>
    /\ Head(jsQueue).kind = "imu"
    /\ jsQueue' = Tail(jsQueue)
    /\ IF nativeListeners["imu"] > 0 /\ Calls(imuListeners, "hook") > 0
       THEN /\ state' = [state EXCEPT !.imuData = Head(jsQueue).data]
            /\ lastDeliveredRaw' = Head(jsQueue).data
            /\ lastOp' = Done("sampleDelivered", IdleLoc)
       ELSE /\ lastOp' = Step
            /\ UNCHANGED <<state, lastDeliveredRaw>>
    /\ UNCHANGED <<osVars, modVars, jniVars, pc, loc, orientationOffsetRef,
                   isListening, nativeListeners, initialOrientationRef, regVars, rawAtReset, resets, balance,
                   noSampleSinceDetach, attempts, creates, nCalls, nEnv, nSamples, relayVars>>

\* The hook's onEvent subscriber: reacts to events of type 'disconnect'.
WEventState(event) ==
    IF event.type = "disconnect"
    THEN [state EXCEPT !.isConnected = FALSE]
    ELSE state

\* An onVitureEvent event reaches JS.
WOnVitureEvent ==
    /\ jsQueue # <<>>
    /\ Head(jsQueue).kind = "event"
    /\ jsQueue' = Tail(jsQueue)
    /\ state' = IF nativeListeners["event"] > 0 /\ Calls(eventListeners, "hook") > 0
                THEN WEventState(Head(jsQueue)) ELSE state
    /\ lastOp' = Done(IF nativeListeners["event"] > 0 THEN "eventDelivered"
                       ELSE "eventDropped",
                       [IdleLoc EXCEPT !.emitted = <<Head(jsQueue).type>>])
    /\ UNCHANGED <<osVars, modVars, jniVars, pc, loc, orientationOffsetRef,
                   isListening, nativeListeners, initialOrientationRef, regVars, lastDeliveredRaw, rawAtReset,
                   resets, balance, noSampleSinceDetach, attempts, creates, nCalls,
                   nEnv, nSamples, relayVars>>

\* The reference this hook's resetOrientation stores.
InitialOrientation ==
    [yaw |-> state.imuData.yaw, pitch |-> state.imuData.pitch,
     roll |-> state.imuData.roll]

\* The hook's resetOrientation: with a sample on display, remembers its
\* angles in initialOrientationRef.
WResetOrientation ==
    /\ resets < MaxResets
    /\ state.imuData # NullData
    /\ initialOrientationRef' = InitialOrientation
    /\ rawAtReset' = [roll |-> lastDeliveredRaw.roll, pitch |-> lastDeliveredRaw.pitch,
                      yaw |-> lastDeliveredRaw.yaw]
    /\ resets' = resets + 1
    /\ lastOp' = Step
    /\ UNCHANGED <<osVars, modVars, jniVars, pc, loc, jsQueue, state,
                   orientationOffsetRef, isListening, nativeListeners, regVars, lastDeliveredRaw,
                   balance, noSampleSinceDetach, attempts, creates, nCalls, nEnv,
                   nSamples, relayVars>>

\* Handlers an application subscribes besides the hook's own.
AppHandlers == {"app"}

\* listeners.filter((cb) => cb !== callback)
Filter(listeners, callback) ==
    SelectSeq(listeners, LAMBDA cb : cb # callback)

\* A sequence without the first occurrence of h.
RemoveOne(q, h) ==
    LET i == CHOOSE k \in 1..Len(q) : q[k] = h /\ \A j \in 1..(k - 1) : q[j] # h
    IN SubSeq(q, 1, i - 1) \o SubSeq(q, i + 1, Len(q))

\* Viture.onIMUData(callback) / Viture.onEvent(callback): pushes the
\* callback on the stream's list and returns the function that cancels it.
WSubscribe(stream, h) ==
    /\ nCalls < MaxCalls
    /\ nCalls' = nCalls + 1
    /\ imuListeners' = IF stream = "imu" THEN Append(imuListeners, h) ELSE imuListeners
    /\ eventListeners' = IF stream = "event" THEN Append(eventListeners, h)
                         ELSE eventListeners
    /\ subscriptions' = [subscriptions EXCEPT ![stream] = Append(@, h)]
    /\ lastOp' = Step
    /\ UNCHANGED <<osVars, modVars, jniVars, pc, loc, jsQueue, state,
                   orientationOffsetRef, isListening, nativeListeners, initialOrientationRef,
                   lastDeliveredRaw, rawAtReset, resets, balance,
                   noSampleSinceDetach, attempts, creates, nEnv, nSamples, relayVars>>

\* The function onIMUData / onEvent returned for a subscription of h is
\* called: it filters the callback out of the stream's list.
WUnsubscribe(stream, h) ==
    /\ nCalls < MaxCalls
    /\ \E k \in 1..Len(subscriptions[stream]) : subscriptions[stream][k] = h
    /\ nCalls' = nCalls + 1
    /\ imuListeners' = IF stream = "imu" THEN Filter(imuListeners, h) ELSE imuListeners
    /\ eventListeners' = IF stream = "event" THEN Filter(eventListeners, h)
                         ELSE eventListeners
    /\ subscriptions' = [subscriptions EXCEPT ![stream] = RemoveOne(@, h)]
    /\ lastOp' = Step
    /\ UNCHANGED <<osVars, modVars, jniVars, pc, loc, jsQueue, state,
                   orientationOffsetRef, isListening, nativeListeners, initialOrientationRef,
                   lastDeliveredRaw, rawAtReset, resets, balance,
                   noSampleSinceDetach, attempts, creates, nEnv, nSamples, relayVars>>

Next ==
    \/ \E d \in AttachableDevices, granted \in BOOLEAN : Attach(d, granted)
    \/ \E d \in AttachableDevices : Detach(d)
    \/ \E granted \in BOOLEAN : PermissionRespond(granted)
    \/ Initialize
    \/ \E t \in Threads : InitOpen(t)
    \/ \E t \in Threads : InitCreate(t)
    \/ \E t \in Threads : InitCreateProvider(t)
    \/ \E t \in Threads : InitSetCallback(t)
    \/ \E t \in Threads : InitNativeInitialize(t)
    \/ \E t \in Threads : InitStart(t)
    \/ \E t \in Threads : InitFinish(t)
    \/ ReceivePermission
    \/ ReceiveDetached
    \/ Release
    \/ ToggleIMU
    \/ \E data \in RawBlocks : ImuPoseCallback(data)
    \/ OnVitureIMU
    \/ OnVitureEvent
    \/ PromiseSettled
    \/ Toggle3D
    \/ ResetOrientation

Spec == Init /\ [][Next]_vars

\* The same native module under the wrapper and its hook.
NextW ==
    \/ \E d \in AttachableDevices, granted \in BOOLEAN : Attach(d, granted)
    \/ \E d \in AttachableDevices : Detach(d)
    \/ \E granted \in BOOLEAN : PermissionRespond(granted)
    \/ WInitialize
    \/ \E t \in Threads : InitOpen(t)
    \/ \E t \in Threads : InitCreate(t)
    \/ \E t \in Threads : InitCreateProvider(t)
    \/ \E t \in Threads : InitSetCallback(t)
    \/ \E t \in Threads : InitNativeInitialize(t)
    \/ \E t \in Threads : InitStart(t)
    \/ \E t \in Threads : InitFinish(t)
    \/ ReceivePermission
    \/ ReceiveDetached
    \/ WRelease
    \/ \E enabled \in BOOLEAN : WSetIMUEnabled(enabled)
    \/ \E data \in RawBlocks : ImuPoseCallback(data)
    \/ WOnVitureIMU
    \/ WOnVitureEvent
    \/ WPromiseSettled
    \/ WResetOrientation
    \/ \E stream \in Streams, h \in AppHandlers : WSubscribe(stream, h)
    \/ \E stream \in Streams, h \in AppHandlers : WUnsubscribe(stream, h)

SpecW == InitW /\ [][NextW]_vars

\* The module with a device it is granted at once, called from JS, with the
\* pose callback and setIMUEnabled taken step by step against the other
\* threads.  What the module sends to JS stays on the bridge queue.
NextR ==
    \/ Attach(Luma, TRUE)
    \/ Detach(Luma)
    \/ Initialize
    \/ \E t \in Threads : InitOpen(t)
    \/ \E t \in Threads : InitCreate(t)
    \/ \E t \in Threads : InitCreateProvider(t)
    \/ \E t \in Threads : InitSetCallback(t)
    \/ \E t \in Threads : InitNativeInitialize(t)
    \/ \E t \in Threads : InitStart(t)
    \/ \E t \in Threads : InitFinish(t)
    \/ ReceiveDetached
    \/ Release
    \/ \E enabled \in BOOLEAN : SetIMUEnabledCall(enabled)
    \/ SetIMUEnabledResult
    \/ \E block \in VendorBlocks : RelayEnter(block)
    \/ RelayAttach
    \/ RelayCall
    \/ RelayStore
    \/ RelayEmit

SpecR == Init /\ [][NextR]_vars

\* ------------------------------------------- the reflection variant
\* The VitureModule that reaches the vendor's ArManager by reflection.  It
\* has the same two flags and no USB, native session or callbacks; its
\* settlements stay on the bridge queue.
ReflectionFrame ==
    UNCHANGED <<osVars, connectedDevice, last, jniVars, pc, loc, jsVars, balance,
                noSampleSinceDetach, attempts, creates, nEnv, nSamples, relayVars>>

\* initialize(promise): rejects without an activity, resolves code -999 when
\* the vendor's class is missing, else sets isInitialized to whether
\* ArManager.init() returned 0 and resolves with that.
ReflectionInitialize ==
    /\ nCalls < MaxCalls
    /\ nCalls' = nCalls + 1
    /\ \E outcome \in {"NO_ACTIVITY", "ClassNotFound", "init"} :
         IF outcome = "NO_ACTIVITY"
         THEN /\ jsQueue' = Append(jsQueue, RejectMsg("initialize", "NO_ACTIVITY", FALSE))
              /\ UNCHANGED isInitialized
         ELSE IF outcome = "ClassNotFound"
         THEN /\ jsQueue' = Append(jsQueue, InitResultMsg(Result(FALSE, -999, -1)))
              /\ UNCHANGED isInitialized
         ELSE \E initResult \in {0} \cup VendorFailCodes :
              /\ isInitialized' = (initResult = 0)
              /\ jsQueue' = Append(jsQueue,
                                   InitResultMsg(Result(initResult = 0, initResult, -1)))
    /\ lastOp' = Step
    /\ UNCHANGED imuEnabled
    /\ ReflectionFrame

\* release(promise): clears isInitialized and resolves true.
ReflectionRelease ==
    /\ nCalls < MaxCalls
    /\ nCalls' = nCalls + 1
    /\ isInitialized' = FALSE
    /\ jsQueue' = Append(jsQueue, ResolveMsg("release", TRUE))
    /\ lastOp' = Step
    /\ UNCHANGED imuEnabled
    /\ ReflectionFrame

\* setIMUEnabled(enabled, promise): rejects when not initialized, else
\* stores the flag and resolves it.
ReflectionSetIMUEnabled(enabled) ==
    /\ nCalls < MaxCalls
    /\ nCalls' = nCalls + 1
    /\ IF ~isInitialized
       THEN /\ jsQueue' = Append(jsQueue, RejectMsg("setIMUEnabled", "NOT_INITIALIZED", enabled))
            /\ UNCHANGED imuEnabled
       ELSE /\ imuEnabled' = enabled
            /\ jsQueue' = Append(jsQueue, ResolveMsg("setIMUEnabled", enabled))
    /\ lastOp' = Step
    /\ UNCHANGED isInitialized
    /\ ReflectionFrame

NextV ==
    \/ ReflectionInitialize
    \/ ReflectionRelease
    \/ \E enabled \in BOOLEAN : ReflectionSetIMUEnabled(enabled)

SpecV == Init /\ [][NextV]_vars

\* ------------------------------------------------------------ properties
InitializeReturned == lastOp.name = "initializeReturned"
PermissionHandled == lastOp.name = "permissionHandled"

\* C1: an initialize() call made while the module is connected leaves it
\* connected with the very handle it had: when the call returns (no
\* detach having run meanwhile), isInitialized holds and g_handle is the
\* handle that existed at the call.
C1_InitializeIdempotent ==
    (InitializeReturned /\ lastOp.info.entryHandle # NullHandle
        /\ ~lastOp.info.interrupted)
    => (isInitialized /\ g_handle = lastOp.info.entryHandle)

\* C2: when the hook's release() has completed (the 3D flag and the offset
\* not having been touched while it was pending), the hook and the module
\* are idle: connected, IMU and 3D flags false, no native handle, and the
\* orientation offset back at (0,0,0).
C2_ReleaseEndsIdle ==
    (lastOp.name = "releaseSettled" /\ ~lastOp.info.interrupted)
    => /\ ~state.isConnected /\ ~state.imuEnabled /\ ~state.mode3D
       /\ orientationOffsetRef = ZeroOffset
       /\ ~isInitialized /\ ~imuEnabled /\ g_handle = NullHandle

\* C3: when the receiver has handled the answer to a permission request
\* that release() superseded, the module is idle: not initialized, no
\* native handle, no callback reference.
C3_SupersededGrantIsIdle ==
    (PermissionHandled /\ lastOp.info.superseded)
    => (~isInitialized /\ g_handle = NullHandle /\ g_callbackObj = NullRef)

\* C4: when initialize() returns success after handleDisconnect ran during
\* it, the teardown has won: isInitialized is false and there is no native
\* handle.
C4_TeardownWins ==
    (InitializeReturned /\ lastOp.info.interrupted /\ lastOp.info.result.success)
    => (~isInitialized /\ g_handle = NullHandle)

\* C5: initialize() calls made while an attempt is in flight are coalesced
\* into it: native create has run at most once per attempt started.
C5_CreateOncePerAttempt == creates <= attempts

\* C6: when initializeDevice returns a failure (open, create, native
\* initialize or start failed), nothing of the attempt remains: no native
\* handle, no callback reference, and the module is not initialized.
InitDeviceFailed ==
    /\ InitializeReturned \/ PermissionHandled
    /\ lastOp.info.dev # NoDevice
    /\ ~lastOp.info.result.success
    /\ lastOp.info.result.code \notin {0, -2}

C6_FailureTearsDown ==
    InitDeviceFailed
    => (g_handle = NullHandle /\ g_callbackObj = NullRef /\ ~isInitialized)

\* C7: handling a permission answer emits exactly one lifecycle event:
\* connected after a grant that connected, permission_denied after a
\* denial, init_failed after a grant whose initializeDevice failed.
ExpectedEvent(info) ==
    IF ~info.granted THEN "permission_denied"
    ELSE IF info.result.success THEN "connected" ELSE "init_failed"

C7_OneEventPerAnswer ==
    PermissionHandled => lastOp.info.emitted = <<ExpectedEvent(lastOp.info)>>

\* C8: in the trace of emitted lifecycle events every disconnected event
\* has an earlier connected event of its own: the count of connected events
\* never falls below the count of disconnected events.
C8_DisconnectedAfterConnected == balance >= 0

\* C9: a detach handled while connected with IMU on leaves the module idle
\* with a disconnected event emitted last, and until the next sample is
\* relayed getLastIMUData() returns null.
C9_DetachClearsSample ==
    /\ lastOp.name = "handleDisconnect"
       => /\ ~isInitialized /\ ~imuEnabled
          /\ jsQueue # <<>>
          /\ jsQueue[Len(jsQueue)].type = "disconnected"
    /\ noSampleSinceDetach => GetLastIMUData = NullData

\* C10: every sample delivered to the hook is shown with the offset the
\* resets have captured subtracted: its roll, pitch and yaw are the raw
\* values minus the raw values of the sample on display at the last reset
\* (zero before any reset).
C10_OffsetSubtracted ==
    lastOp.name = "sampleDelivered"
    => /\ state.imuData.roll = lastDeliveredRaw.roll - rawAtReset.roll
       /\ state.imuData.pitch = lastDeliveredRaw.pitch - rawAtReset.pitch
       /\ state.imuData.yaw = lastDeliveredRaw.yaw - rawAtReset.yaw

\* The step settles the promise of a call to `op`: the settlement is the
\* message the step appends to the bridge queue.
Settles(op) ==
    /\ Len(jsQueue') = Len(jsQueue) + 1
    /\ jsQueue'[Len(jsQueue')].kind = "result"
    /\ jsQueue'[Len(jsQueue')].type = op

Settlement == jsQueue'[Len(jsQueue')]

\* C11: setIMUEnabled called while the module is not initialized rejects
\* with NOT_INITIALIZED within the call, opens or closes no IMU stream on
\* the native session and leaves the IMU flag as it was.
C11_SetIMUNotInitialized ==
    [][(Settles("setIMUEnabled") /\ ~isInitialized)
       => /\ ~Settlement.ok
          /\ Settlement.error = "NOT_INITIALIZED"
          /\ imuEnabled' = imuEnabled
          /\ session' = session
          /\ g_handle' = g_handle]_vars

C11_Witness ==
    /\ jsQueue # <<>>
    /\ jsQueue[Len(jsQueue)].type = "setIMUEnabled"
    /\ jsQueue[Len(jsQueue)].error = "NOT_INITIALIZED"
    /\ ~isInitialized

\* No attached device has the Viture vendor id and a listed product id.
NoMatchingDevice ==
    \A d \in deviceList :
        ~(d.vendorId = VITURE_VENDOR_ID /\ d.productId \in VITURE_PRODUCT_IDS)

\* C12: initialize() called with no matching device attached resolves with
\* success = false and code -1 and changes nothing else: the module's
\* fields, the native handle, callback and session, the outstanding
\* permission requests and both threads' control state are as before.
C12_NotFoundChangesNothing ==
    [][(Settles("initialize") /\ pc["mq"] = "idle" /\ NoMatchingDevice)
       => /\ ~Settlement.ok
          /\ Settlement.code = -1
          /\ UNCHANGED <<modVars, jniVars, permReqs, mainQ, pc>>]_vars

C12_Witness ==
    /\ lastOp.name = "initializeReturned"
    /\ lastOp.info.dev = NoDevice
    /\ lastOp.info.result = Result(FALSE, -1, -1)
    /\ \E d \in deviceList : d.vendorId = VITURE_VENDOR_ID

\* C13: initialize() called in Idle with the 0x35CA/0x1014 device attached
\* and permission already granted, and not cut across by a detach, succeeds
\* exactly when the provider was created, initialized and started; it then
\* reports deviceType GEN2, leaves the module initialized on that provider
\* and has emitted exactly one connected event.
C13_PreGrantedLumaConnects ==
    (InitializeReturned /\ lastOp.info.fromIdle /\ ~lastOp.info.interrupted
        /\ lastOp.info.dev = Luma)
    => /\ lastOp.info.result.success
          <=> (g_handle # NullHandle /\ session.initialized /\ session.started)
       /\ lastOp.info.result.success
          => /\ lastOp.info.result.code = 0
             /\ lastOp.info.result.deviceType = DEVICE_TYPE_GEN2
             /\ isInitialized
             /\ session.productId = 4116
             /\ session.registered
             /\ lastOp.info.emitted = <<"connected">>

C13_Witness ==
    /\ InitializeReturned /\ lastOp.info.fromIdle /\ ~lastOp.info.interrupted
    /\ lastOp.info.dev = Luma
    /\ lastOp.info.result = Result(TRUE, 0, DEVICE_TYPE_GEN2)
    /\ isInitialized

\* C14: teardown calls made with nothing to tear down report success:
\* stop() called by release() while no native handle exists returns 0, and
\* closeImu called by setIMUEnabled(false) while no native handle exists
\* returns 0, so that the call resolves.
C14_TeardownWithoutHandleSucceeds ==
    [][/\ (Settles("release") /\ g_handle = NullHandle)
          => lastOp'.info.result.code = 0
       /\ (Settles("setIMUEnabled") /\ isInitialized /\ g_handle = NullHandle
              /\ ~Settlement.value)
          => Settlement.ok]_vars

\* C15: at most one permission request per device is outstanding: an
\* initialize() made while a request for the device is unanswered asks the
\* OS for nothing more.
C15_OnePromptPerDevice ==
    \A i, j \in 1..Len(permReqs) :
        permReqs[i].device = permReqs[j].device => i = j

\* C16: getLastIMUData() returns null while no sample has been relayed,
\* and afterwards the last relayed sample with the current orientation
\* offset subtracted.
C16_LastIMUDataNullOrAdjusted ==
    IF nSamples = 0
    THEN GetLastIMUData = NullData
    ELSE GetLastIMUData = AdjustedData(last)

\* C17: the 3D flag changes only while connected: a toggle3D made while
\* the module is not initialized leaves the flag as it was.
C17_3DNeedsConnection ==
    [][~isInitialized => state'.mode3D = state.mode3D]_vars

\* The stream's list of the wrapper.
Listeners(stream) == IF stream = "imu" THEN imuListeners ELSE eventListeners

\* C18: cancelling one subscription removes that subscription only: on
\* each stream every handler is called once per subscription of it that
\* was made and not cancelled, another subscription of the same handler
\* included.
C18_UnsubscribeRemovesOne ==
    \A stream \in Streams, h \in AppHandlers \cup {"hook"} :
        Calls(Listeners(stream), h) = Calls(subscriptions[stream], h)

\* C19: no lifecycle event the native module emitted is taken off the
\* bridge while the wrapper has no native listener attached: every one is
\* handed to the handlers subscribed at that time.
C19_StateEventsDelivered ==
    ~(/\ lastOp.name = "eventDropped"
      /\ lastOp.info.emitted[1] \in {"connected", "disconnected"})

\* C20: at most one native session exists at any time: the vendor library
\* never holds two providers that were created and not destroyed.
C20_AtMostOneSession ==
    Cardinality(providers) <= 1

\* The step relays an orientation sample: it emits an onVitureIMU event.
Relays ==
    /\ Len(jsQueue') = Len(jsQueue) + 1
    /\ jsQueue'[Len(jsQueue')].kind = "imu"

C24_FlagFollowsStatus ==
    [][lastOp'.name = "setIMUEnabled"
       => /\ isInitialized
          /\ Settles("setIMUEnabled")
          /\ Settlement.ok = (lastOp'.info.result.code = 0)
          /\ IF lastOp'.info.result.code = 0
             THEN /\ imuEnabled' = lastOp'.info.enabled
                  /\ Settlement.value = lastOp'.info.enabled
             ELSE /\ imuEnabled' = imuEnabled
                  /\ Settlement.error = "IMU_ERROR"]_vars

\* A closeImu that failed on a module with its IMU on: the flag stayed on.
C24_Witness ==
    /\ lastOp.name = "setIMUEnabled"
    /\ lastOp.info.result.code \in VendorFailCodes
    /\ ~lastOp.info.enabled
    /\ imuEnabled
    /\ jsQueue # <<>>
    /\ ~jsQueue[Len(jsQueue)].ok

\* C26: whenever isConnected() answers true, a native session handle exists.
C26_ConnectedHasHandle ==
    isInitialized => g_handle # NullHandle

\* C27: whenever the IMU flag is true, the connected flag is true.
C27_ImuImpliesConnected ==
    imuEnabled => isInitialized

\* Nothing is under way: no handler is running on either thread, no
\* broadcast or permission request is outstanding, and every event and
\* settlement the module produced has reached the hook.
Quiescent ==
    /\ pc["mq"] = "idle"
    /\ pc["main"] = "idle"
    /\ mainQ = <<>>
    /\ permReqs = <<>>
    /\ jsQueue = <<>>

\* C25: once every event the module emitted has been delivered to the hook,
\* the hook's isConnected flag equals what the module's isConnected()
\* resolves.
C25_HookTracksModule ==
    Quiescent => (state.isConnected = isInitialized)

\* C28: the pose callback never makes its call with a callback reference
\* that destroy() or setCallback() deleted after the callback's null test.
C28_NoReleasedTarget ==
    ~vloc.invokedReleased

\* C22: a pose callback that cannot be relayed (the thread cannot be
\* attached, there is no callback object, or the emit throws) ends as a
\* silent drop: nothing is sent, no exception is left pending on the
\* vendor's thread, and the module's connection and IMU flags are unchanged.
C22_FailedRelayDropped ==
    [][lastOp'.name \in {"sampleDropped", "sampleFailed"}
       => /\ ~vloc'.exception
          /\ vpc' = "idle"
          /\ jsQueue' = jsQueue
          /\ isInitialized' = isInitialized
          /\ imuEnabled' = imuEnabled]_vars

\* C23: a block that carries only roll, pitch and yaw is relayed as a sample
\* with those angles and the identity quaternion.
C23_ShortBlockIdentity ==
    [][(lastOp'.name = "sampleRelayed" /\ Len(vloc.block) < 7)
       => /\ Len(jsQueue') = Len(jsQueue) + 1
          /\ jsQueue'[Len(jsQueue')].data =
                IMUData(vloc.block[1], vloc.block[2], vloc.block[3], 1, 0, 0, 0)]_vars

\* The samples the relay can build from the vendor's blocks.
BuiltSamples ==
    {IMUData(a[1], a[2], a[3], a[4], a[5], a[6], a[7]) :
        a \in UNION {FloatArrays(block) : block \in VendorBlocks}}

\* C30: once a sample has been stored, a getLastIMUData call (the
\* native-modules thread is free to make one) returns one of the samples
\* the relay built, whole.
C30_LastSampleWhole ==
    (vloc.completed >= 1 /\ pc["mq"] = "idle") => GetLastIMUData \in BuiltSamples

\* C29: the wrapper never has more than one native listener attached to a
\* channel, whatever initialize() and release() calls were made, so the
\* fan-out to the subscribed handlers runs at most once per native event.
C29_OneNativeListener ==
    /\ \A stream \in Streams : nativeListeners[stream] <= 1
    /\ isListening = (\A stream \in Streams : nativeListeners[stream] = 1)

\* A second successful initialize() has settled while the wrapper was
\* already listening.
C29_Witness ==
    /\ lastOp.name = "alreadyListening"
    /\ isListening
    /\ \A stream \in Streams : nativeListeners[stream] = 1

====
